---- MODULE Spec2Model ----
(***************************************************************************)
(* Model of src/app.py (Daily Report AI, a Streamlit script).              *)
(*                                                                         *)
(* Texts are sequences of one-character strings, so that the parsers split *)
(* and strip them as the Python code does.  Numbers parsed from text keep  *)
(* their Python type (int, float, NaN) in a tagged record.                 *)
(***************************************************************************)
EXTENDS Integers, Sequences, FiniteSets, TLC

VARIABLES
  \* st.session_state
  nonce, recorded_audio, transcript_prefill, audio_hash, skip_record_once,
  crew_prefill, equip_prefill, acts_prefill, qty_prefill, safety_prefill, issues_prefill,
  \* module globals set while the script boots
  SAFE_MODE, llm_available, supabase,
  \* the daily_reports table: the number of rows inserted so far
  daily_reports,
  \* the current run of the script: position, and what it has done so far
  \* (transcription: how the last call of transcribe_wav_bytes ended)
  pc, recorded_bytes, transcription, form, outcomes, extracted, extract_case,
  row, saved, cleared, app_error, reset_calls, insert_calls,
  \* what the recorder returned in the run that last called reset_all_fields,
  \* for as long as every run since has returned the same
  reset_bytes,
  \* one application of a normalizer to a text, and the way back
  norm_mode, norm_in, norm_out, norm_text, norm_back,
  \* one call of extract_structured_with_gpt
  ex_raw_text, ex_response, ex_result

session == <<nonce, recorded_audio, transcript_prefill, audio_hash, skip_record_once,
             crew_prefill, equip_prefill, acts_prefill, qty_prefill, safety_prefill,
             issues_prefill>>

globals == <<SAFE_MODE, llm_available, supabase>>

run == <<pc, recorded_bytes, transcription, form, outcomes, extracted, extract_case,
         row, saved, cleared, app_error, reset_calls, insert_calls, reset_bytes>>

norm == <<norm_mode, norm_in, norm_out, norm_text, norm_back>>

excall == <<ex_raw_text, ex_response, ex_result>>

vars == <<session, globals, daily_reports, run, norm, excall>>

(***************************************************************************)
(* Bounds                                                                  *)
(***************************************************************************)
MaxLen == 4

MaxPhotos == 2

MaxNonce == 3

(***************************************************************************)
(* Characters                                                              *)
(***************************************************************************)
NL == "\n"

Alphabet == {"a", "n", "1", ".", ":", ",", " ", NL, ";"}

Digits == {"0", "1", "2", "3", "4", "5", "6", "7", "8", "9"}

Letters == {"a", "b", "c", "d", "e", "f", "g", "h", "i", "j", "k", "l", "m",
            "n", "o", "p", "q", "r", "s", "t", "u", "v", "w", "x", "y", "z"}

Whitespace == {" ", NL}

DigitVal(c) ==
  CASE c = "0" -> 0 [] c = "1" -> 1 [] c = "2" -> 2 [] c = "3" -> 3
    [] c = "4" -> 4 [] c = "5" -> 5 [] c = "6" -> 6 [] c = "7" -> 7
    [] c = "8" -> 8 [] c = "9" -> 9

DigitChar(d) ==
  CASE d = 0 -> "0" [] d = 1 -> "1" [] d = 2 -> "2" [] d = 3 -> "3"
    [] d = 4 -> "4" [] d = 5 -> "5" [] d = 6 -> "6" [] d = 7 -> "7"
    [] d = 8 -> "8" [] d = 9 -> "9"

(***************************************************************************)
(* Python str methods on texts                                             *)
(***************************************************************************)
Contains(s, c) == \E i \in 1..Len(s) : s[i] = c

FirstIdx(s, c) ==
  CHOOSE i \in 1..Len(s) : s[i] = c /\ \A j \in 1..(i - 1) : s[j] # c

\* s.strip()
Strip(s) ==
  LET keep == {i \in 1..Len(s) : s[i] \notin Whitespace}
  IN  IF keep = {} THEN <<>>
      ELSE LET lo == CHOOSE i \in keep : \A j \in keep : i <= j
               hi == CHOOSE i \in keep : \A j \in keep : j <= i
           IN  SubSeq(s, lo, hi)

\* s.replace(a, b) for one-character a and b
Replace(s, a, b) == [i \in 1..Len(s) |-> IF s[i] = a THEN b ELSE s[i]]

\* s.split(sep): always at least one piece
RECURSIVE SplitOn(_, _)
SplitOn(s, sep) ==
  IF ~Contains(s, sep) THEN <<s>>
  ELSE LET i == FirstIdx(s, sep)
       IN  <<SubSeq(s, 1, i - 1)>> \o SplitOn(SubSeq(s, i + 1, Len(s)), sep)

\* s.split(sep, 1) when sep occurs in s: the text before and after the first sep
SplitFirst(s, sep) ==
  LET i == FirstIdx(s, sep)
  IN  <<SubSeq(s, 1, i - 1), SubSeq(s, i + 1, Len(s))>>

\* s.split(): pieces between runs of whitespace, none of them empty
SplitWs(s) ==
  SelectSeq(SplitOn(Replace(s, NL, " "), " "), LAMBDA p : p # <<>>)

\* s.splitlines(): no piece after a final line break
SplitLines(s) ==
  LET ps == SplitOn(s, NL)
  IN  IF ps[Len(ps)] = <<>> THEN SubSeq(ps, 1, Len(ps) - 1) ELSE ps

\* s.isalpha()
IsAlpha(s) == s # <<>> /\ \A i \in 1..Len(s) : s[i] \in Letters

\* sep.join(parts)
RECURSIVE Join(_, _)
Join(parts, sep) ==
  IF parts = <<>> THEN <<>>
  ELSE IF Len(parts) = 1 THEN parts[1]
  ELSE parts[1] \o sep \o Join(Tail(parts), sep)

\* [x.strip() for x in pieces if x.strip()]
StripNonEmpty(pieces) ==
  SelectSeq([i \in 1..Len(pieces) |-> Strip(pieces[i])], LAMBDA p : p # <<>>)

(***************************************************************************)
(* Python int(), float() and str() on the texts the model builds: digits,  *)
(* at most one ".", and the word nan.  A value is a tagged record:         *)
(*   int    num                                                            *)
(*   float  num / 10^scale, scale minimal                                  *)
(*   nan    float("nan")                                                   *)
(*   str    the text itself                                                *)
(***************************************************************************)
RECURSIVE DigitsVal(_)
DigitsVal(s) ==
  IF s = <<>> THEN 0 ELSE 10 * DigitsVal(SubSeq(s, 1, Len(s) - 1)) + DigitVal(s[Len(s)])

RECURSIVE DigitsOf(_)
DigitsOf(n) == IF n < 10 THEN <<DigitChar(n)>> ELSE DigitsOf(n \div 10) \o <<DigitChar(n % 10)>>

RECURSIVE Pow10(_)
Pow10(k) == IF k = 0 THEN 1 ELSE 10 * Pow10(k - 1)

AllDigits(s) == \A i \in 1..Len(s) : s[i] \in Digits

IntVal(n) == [kind |-> "int", num |-> n, scale |-> 0, text |-> <<>>]

RECURSIVE FloatVal(_, _)
FloatVal(n, k) ==
  IF k > 0 /\ n % 10 = 0 THEN FloatVal(n \div 10, k - 1)
  ELSE [kind |-> "float", num |-> n, scale |-> k, text |-> <<>>]

NaN == [kind |-> "nan", num |-> 0, scale |-> 0, text |-> <<>>]

StrVal(s) == [kind |-> "str", num |-> 0, scale |-> 0, text |-> s]

NanText == <<"n", "a", "n">>

\* int(v) does not raise
IntParses(v) == v # <<>> /\ AllDigits(v)

\* float(v) does not raise
FloatParses(v) ==
  \/ v = NanText
  \/ /\ AllDigits(SelectSeq(v, LAMBDA c : c # "."))
     /\ \E i \in 1..Len(v) : v[i] \in Digits
     /\ Cardinality({i \in 1..Len(v) : v[i] = "."}) <= 1

PyInt(v) == IntVal(DigitsVal(v))

PyFloat(v) ==
  IF v = NanText THEN NaN
  ELSE IF Contains(v, ".")
       THEN LET p == SplitFirst(v, ".")
            IN  FloatVal(DigitsVal(p[1] \o p[2]), Len(p[2]))
       ELSE FloatVal(DigitsVal(v), 0)

\* str(x) as an f-string formats it; floats here are printed without exponent
PyStr(x) ==
  CASE x.kind = "int" -> DigitsOf(x.num)
    [] x.kind = "float" ->
         LET whole == x.num \div Pow10(x.scale)
             frac  == x.num % Pow10(x.scale)
             fd    == DigitsOf(frac)
             pad   == [i \in 1..(x.scale - Len(fd)) |-> "0"]
         IN  DigitsOf(whole) \o <<".">> \o (IF x.scale = 0 THEN <<"0">> ELSE pad \o fd)
    [] x.kind = "nan" -> NanText
    [] x.kind = "str" -> x.text

\* x == y on values: NaN equals nothing, an int equals the float of the same value
PyEqVal(x, y) ==
  IF x.kind = "nan" \/ y.kind = "nan" THEN FALSE
  ELSE IF x.kind = "str" \/ y.kind = "str" THEN x = y
  ELSE x.num = y.num /\ x.scale = y.scale

(***************************************************************************)
(* Python values the script handles besides texts                          *)
(***************************************************************************)
\* None: distinct from every text, URL and recording of the model
None == <<"None">>

\* {}: a dict is a function from its keys, the empty one has no key
EmptyDict == <<>>

\* d.get(k, default)
Get(d, k, default) == IF k \in DOMAIN d THEN d[k] ELSE default

\* bool(x) for bytes, a URL or None
Truthy(x) == x # <<>> /\ x # None

\* a or b, for a text or a list a
Or(a, b) == IF a # <<>> THEN a ELSE b

(***************************************************************************)
(* Normalizers (src/app.py 113-146, 429-431)                               *)
(***************************************************************************)
str_to_list(s) ==
  IF Strip(s) = <<>> THEN <<>>
  ELSE StripNonEmpty(SplitOn(Replace(Replace(s, NL, ","), ";", ","), ","))

\* a coercion that tries float before int
CoerceCount_float_first(v) ==
  IF FloatParses(v) THEN PyFloat(v)
  ELSE IF IntParses(v) THEN PyInt(v)
  ELSE StrVal(v)

\* try int(v), except try float(v), except v
CoerceCount(v) ==
  IF IntParses(v) THEN PyInt(v)
  ELSE IF FloatParses(v) THEN PyFloat(v)
  ELSE StrVal(v)

\* try float(val), except val
CoerceValue(v) ==
  IF FloatParses(v) THEN PyFloat(v) ELSE StrVal(v)

KvItems(s) == StripNonEmpty(SplitOn(Replace(s, NL, ","), ","))

KvEntry(it, crew_hint) ==
  LET kv == SplitFirst(it, ":")
      k  == Strip(kv[1])
      v  == Strip(kv[2])
  IN  IF crew_hint THEN [trade |-> k, count |-> CoerceCount(v)]
      ELSE [type |-> k, count |-> CoerceCount(v)]

kvlist_to_json(s, crew_hint) ==
  IF Strip(s) = <<>> THEN <<>>
  ELSE LET items == SelectSeq(KvItems(s), LAMBDA it : Contains(it, ":"))
       IN  [i \in 1..Len(items) |-> KvEntry(items[i], crew_hint)]

QtyLines(s) == StripNonEmpty(SplitLines(s))

QtyEntry(line) ==
  LET lv    == SplitFirst(line, ":")
      left  == Strip(lv[1])
      val   == Strip(lv[2])
      parts == SplitWs(left)
      peel  == Len(parts) >= 2 /\ IsAlpha(parts[Len(parts)])
  IN  [item  |-> IF peel THEN Join(SubSeq(parts, 1, Len(parts) - 1), <<" ">>) ELSE left,
       unit  |-> IF peel THEN parts[Len(parts)] ELSE <<>>,
       value |-> CoerceValue(val)]

qty_to_json(s) ==
  IF Strip(s) = <<>> THEN <<>>
  ELSE LET lines == SelectSeq(QtyLines(s), LAMBDA l : Contains(l, ":"))
       IN  [i \in 1..Len(lines) |-> QtyEntry(lines[i])]

\* the activity parser of the submit handler, for text with text.strip() non-empty
activities_parse(s) ==
  LET parts == StripNonEmpty(SplitOn(Replace(s, NL, ";"), ";"))
  IN  [i \in 1..Len(parts) |-> [location |-> <<>>, description |-> parts[i]]]

(***************************************************************************)
(* Serializers (src/app.py 148-167)                                        *)
(***************************************************************************)
crew_to_text(crew) ==
  Join([i \in 1..Len(crew) |->
          Get(crew[i], "trade", <<>>) \o <<":", " ">> \o PyStr(Get(crew[i], "count", StrVal(<<>>)))],
       <<",", " ">>)

equip_to_text(eq) ==
  Join([i \in 1..Len(eq) |->
          Get(eq[i], "type", <<>>) \o <<":", " ">> \o PyStr(Get(eq[i], "count", StrVal(<<>>)))],
       <<",", " ">>)

acts_to_text(acts) ==
  Join([i \in 1..Len(acts) |-> Get(acts[i], "description", <<>>)], <<";", " ">>)

qtys_to_text(qs) ==
  Join([i \in 1..Len(qs) |->
          Strip(Get(qs[i], "item", <<>>) \o <<" ">> \o Get(qs[i], "unit", <<>>))
            \o <<":", " ">> \o PyStr(Get(qs[i], "value", StrVal(<<>>)))],
       <<NL>>)

(***************************************************************************)
(* One normalizer applied to one text, serialized and parsed again         *)
(***************************************************************************)
Texts == UNION {[1..n -> Alphabet] : n \in 0..MaxLen}

NormIdle ==
  /\ norm_mode = "none"
  /\ norm_in = <<>>
  /\ norm_out = <<>>
  /\ norm_text = <<>>
  /\ norm_back = <<>>

NormalizeCrew ==
  /\ norm_mode = "input"
  /\ norm_mode' = "crew"
  /\ norm_out' = kvlist_to_json(norm_in, TRUE)
  /\ norm_text' = crew_to_text(norm_out')
  /\ norm_back' = kvlist_to_json(norm_text', TRUE)
  /\ UNCHANGED <<norm_in, session, globals, daily_reports, run, excall>>

NormalizeEquip ==
  /\ norm_mode = "input"
  /\ norm_mode' = "equip"
  /\ norm_out' = kvlist_to_json(norm_in, FALSE)
  /\ norm_text' = equip_to_text(norm_out')
  /\ norm_back' = kvlist_to_json(norm_text', FALSE)
  /\ UNCHANGED <<norm_in, session, globals, daily_reports, run, excall>>

NormalizeQty ==
  /\ norm_mode = "input"
  /\ norm_mode' = "qty"
  /\ norm_out' = qty_to_json(norm_in)
  /\ norm_text' = qtys_to_text(norm_out')
  /\ norm_back' = qty_to_json(norm_text')
  /\ UNCHANGED <<norm_in, session, globals, daily_reports, run, excall>>

NormalizeActs ==
  /\ norm_mode = "input"
  /\ norm_mode' = "acts"
  /\ norm_out' = activities_parse(norm_in)
  /\ norm_text' = acts_to_text(norm_out')
  /\ norm_back' = activities_parse(norm_text')
  /\ UNCHANGED <<norm_in, session, globals, daily_reports, run, excall>>

NextParse == NormalizeCrew \/ NormalizeEquip \/ NormalizeQty \/ NormalizeActs

(***************************************************************************)
(* Collaborators: what the speech and language models and the storage      *)
(* service can answer                                                      *)
(***************************************************************************)
BUCKET_PHOTOS == "daily-report-photos"

BUCKET_AUDIO == "daily-report-audio"

\* the recordings the recorder widget can return (bytes)
Recordings == {<<"wav", "A">>, <<"wav", "B">>}

md5_bytes(b) == <<"md5", b[2]>>

\* what a successful transcription says
Spoken == <<"h", "m">>

ExtractedKeys == {"crew_counts", "equipment", "activities", "quantities", "safety", "issues_delays"}

\* JSON objects the language model can answer with (the schema requires no key)
DataAllEmpty ==
  [crew_counts |-> <<>>, equipment |-> <<>>, activities |-> <<>>, quantities |-> <<>>,
   safety |-> <<>>, issues_delays |-> <<>>]

DataFull ==
  [crew_counts   |-> <<[trade |-> <<"k">>, count |-> IntVal(5)]>>,
   equipment     |-> <<[type |-> <<"m">>, count |-> IntVal(4)]>>,
   activities    |-> <<[location |-> <<"l">>, description |-> <<"w">>]>>,
   quantities    |-> <<[item |-> <<"t">>, unit |-> <<"y">>, value |-> IntVal(7)]>>,
   safety        |-> <<"z">>,
   issues_delays |-> <<"o">>]

DataPartial ==
  [crew_counts |-> <<[trade |-> <<"k">>, count |-> IntVal(5)]>>,
   activities  |-> <<[location |-> <<"l">>, description |-> <<"w">>]>>,
   safety      |-> <<"z">>]

DataSamples == {EmptyDict, DataAllEmpty, DataFull, DataPartial}

\* the call raises; the answer is not JSON; it is JSON but no object; it is an object
LlmResponses ==
  {[kind |-> k, data |-> EmptyDict] : k \in {"raise", "notjson", "nondict"}}
    \cup {[kind |-> "dict", data |-> d] : d \in DataSamples}

NotContacted == [kind |-> "none", data |-> EmptyDict]

(***************************************************************************)
(* LLM helpers (src/app.py 196-250)                                        *)
(***************************************************************************)
\* outcome: the text of the answer, or None when the call raises
transcribe_wav_bytes(wav_bytes, outcome) ==
  IF SAFE_MODE \/ ~llm_available \/ ~Truthy(wav_bytes) THEN <<>>
  ELSE IF outcome = None THEN <<>>
  ELSE outcome

\* an extractor that returns the parsed answer as it came
extract_structured_with_gpt_as_is(raw_text, resp) ==
  IF SAFE_MODE \/ ~llm_available \/ Strip(raw_text) = <<>> THEN EmptyDict
  ELSE IF resp.kind = "dict" THEN resp.data
  ELSE EmptyDict

extract_structured_with_gpt(raw_text, resp) ==
  IF SAFE_MODE \/ ~llm_available \/ Strip(raw_text) = <<>> THEN EmptyDict
  ELSE IF resp.kind = "dict"
       THEN [crew_counts   |-> Get(resp.data, "crew_counts", <<>>),
             equipment     |-> Get(resp.data, "equipment", <<>>),
             activities    |-> Get(resp.data, "activities", <<>>),
             quantities    |-> Get(resp.data, "quantities", <<>>),
             safety        |-> Get(resp.data, "safety", <<>>),
             issues_delays |-> Get(resp.data, "issues_delays", <<>>)]
       ELSE EmptyDict

(***************************************************************************)
(* One call of extract_structured_with_gpt                                 *)
(***************************************************************************)
RawTexts == {<<>>, <<" ">>, <<NL, " ">>, <<"j">>, <<" ", "j">>, <<"j", NL, "h">>}

\* SAFE_MODE switches the import of the LLM client off (src/app.py 28-34)
BootFlags ==
  {[safe |-> TRUE, llm |-> FALSE], [safe |-> FALSE, llm |-> TRUE], [safe |-> FALSE, llm |-> FALSE]}

ExIdle ==
  /\ ex_raw_text = <<>>
  /\ ex_response = NotContacted
  /\ ex_result = <<>>

ExtractCall ==
  /\ ex_result = <<>>
  /\ \E resp \in LlmResponses :
       /\ ex_response' = resp
       /\ ex_result' = <<extract_structured_with_gpt(ex_raw_text, resp)>>
  /\ UNCHANGED <<ex_raw_text, session, globals, daily_reports, run, norm>>

NextExtract == ExtractCall

(***************************************************************************)
(* Storage helpers (src/app.py 170-193, 397-402)                           *)
(***************************************************************************)
\* an upload that returns the public URL without looking at the answer
upload_bytes_to_bucket_unchecked(bucket, path, outcome) ==
  IF ~supabase THEN <<>> ELSE <<bucket, path>>

\* outcome "ok": the public URL; "error": the upload raises or answers >= 400
upload_bytes_to_bucket(bucket, path, outcome) ==
  IF ~supabase THEN <<>>
  ELSE IF outcome = "ok" THEN <<bucket, path>>
  ELSE <<>>

upload_photo(p, outcome) == upload_bytes_to_bucket(BUCKET_PHOTOS, p, outcome)

upload_audio_bytes(wav_bytes, outcome) ==
  IF ~Truthy(wav_bytes) THEN <<>>
  ELSE upload_bytes_to_bucket(BUCKET_AUDIO, wav_bytes[2], outcome)

\* outcome "raise": reading the file raises before the upload starts
upload_photo_safe(p, outcome) ==
  IF outcome = "raise" THEN None ELSE upload_photo(p, outcome)

\* a loop that appends the result of every upload, failed or not
RECURSIVE PhotoLoop_keeps_failed(_, _)
PhotoLoop_keeps_failed(photos, outs) ==
  IF photos = <<>> THEN <<>>
  ELSE LET n == Len(photos)
       IN  Append(PhotoLoop_keeps_failed(SubSeq(photos, 1, n - 1), SubSeq(outs, 1, n - 1)),
                  upload_photo_safe(photos[n], outs[n]))

\* for p in photos: url = upload_photo_safe(p); if url: photo_urls.append(url)
RECURSIVE PhotoLoop(_, _)
PhotoLoop(photos, outs) ==
  IF photos = <<>> THEN <<>>
  ELSE LET n    == Len(photos)
           rest == PhotoLoop(SubSeq(photos, 1, n - 1), SubSeq(outs, 1, n - 1))
           url  == upload_photo_safe(photos[n], outs[n])
       IN  IF Truthy(url) THEN Append(rest, url) ELSE rest

(***************************************************************************)
(* Submit handler: extraction, merge and row (src/app.py 417-456)          *)
(***************************************************************************)
TranscriptLabel == <<"T", "r", "a", "n", "s", "c", "r", "i", "p", "t", ":", NL>>

combined_text(f) ==
  (IF Strip(f.notes_raw) # <<>> THEN Strip(f.notes_raw) \o <<NL, NL>> ELSE <<>>)
    \o (IF Strip(f.transcript_text) # <<>>
        THEN TranscriptLabel \o Strip(f.transcript_text) ELSE <<>>)

\* extract_structured_with_gpt is called at all
ExtractionInvoked(f) == f.use_llm /\ Strip(combined_text(f)) # <<>>

\* the language model is really contacted
LlmContacted(raw_text) == ~SAFE_MODE /\ llm_available /\ Strip(raw_text) # <<>>

SubmitExtracted(f, resp) ==
  IF ExtractionInvoked(f) THEN extract_structured_with_gpt(combined_text(f), resp)
  ELSE EmptyDict

\* a merge that unions the typed list with the extracted one
crew_counts_final_union(f, ex) ==
  kvlist_to_json(f.crew_text, TRUE) \o Get(ex, "crew_counts", <<>>)

crew_counts_final(f, ex) == Or(kvlist_to_json(f.crew_text, TRUE), Get(ex, "crew_counts", <<>>))

equipment_final(f, ex) == Or(kvlist_to_json(f.equip_text, FALSE), Get(ex, "equipment", <<>>))

activities_final(f, ex) ==
  IF Strip(f.activities_text) # <<>> THEN activities_parse(f.activities_text)
  ELSE Get(ex, "activities", <<>>)

quantities_final(f, ex) == Or(qty_to_json(f.quantities_text), Get(ex, "quantities", <<>>))

\* a merge that reads the extracted value without a default
safety_final_no_default(f, ex) == Or(f.safety_text, Get(ex, "safety", None))

safety_final(f, ex) == Or(f.safety_text, Get(ex, "safety", <<>>))

issues_final(f, ex) == Or(f.issues_text, Get(ex, "issues_delays", <<>>))

BuildRow(f, ex, audio_url, photo_urls) ==
  [date             |-> f.report_date,
   project          |-> f.project,
   author           |-> f.author,
   weather          |-> f.weather,
   crew_counts      |-> crew_counts_final(f, ex),
   equipment        |-> equipment_final(f, ex),
   activities       |-> activities_final(f, ex),
   quantities       |-> quantities_final(f, ex),
   subs_present     |-> str_to_list(f.subs_text),
   issues_delays    |-> issues_final(f, ex),
   safety           |-> safety_final(f, ex),
   photos           |-> photo_urls,
   notes_raw        |-> f.notes_raw,
   voice_transcript |-> f.transcript_text,
   audio_url        |-> audio_url,
   doc_url          |-> <<>>]

(***************************************************************************)
(* What the operator can have in the form when pressing Submit             *)
(***************************************************************************)
PROJECT_OPTIONS == {"Site A", "Site B", "Demo Project"}

FormOf(crew, equip, acts, qty, safety, issues, subs, notes, transcript, llm, n) ==
  [report_date |-> "2025-01-01", project |-> "Site A", author |-> <<"j">>, weather |-> <<>>,
   crew_text |-> crew, equip_text |-> equip, activities_text |-> acts,
   quantities_text |-> qty, safety_text |-> safety, issues_text |-> issues,
   subs_text |-> subs, notes_raw |-> notes, transcript_text |-> transcript,
   use_llm |-> llm, photos |-> [i \in 1..n |-> i]]

Junk == <<"x">>

Blank == <<" ">>

\* every widget left as the script prefilled it
FormAsPrefilled(notes, llm, n) ==
  FormOf(crew_prefill, equip_prefill, acts_prefill, qty_prefill, safety_prefill,
         issues_prefill, <<>>, notes, transcript_prefill, llm, n)

\* every structured field typed by hand
FormTyped(notes, llm, n) ==
  FormOf(<<"c", ":", "2">>, <<"e", ":", "1">>, <<"d", ";", "f">>, <<"q", " ", "u", ":", "3">>,
         <<"s">>, <<"i">>, <<"b", ",", "g">>, notes, <<"v">>, llm, n)

\* text in every structured field, but none that a parser accepts; blanks elsewhere
FormUnparsed(notes, llm, n) ==
  FormOf(Junk, Junk, <<";">>, Junk, Blank, Blank, Blank, notes, transcript_prefill, llm, n)

\* some fields typed, the others cleared
FormHalfA(notes, llm, n) ==
  FormOf(<<"c", ":", "2">>, <<>>, <<"d", ";", "f">>, <<>>, <<"s">>, <<>>, <<>>, notes,
         transcript_prefill, llm, n)

FormHalfB(notes, llm, n) ==
  FormOf(<<>>, <<"e", ":", "1">>, Blank, <<"q", " ", "u", ":", "3">>, <<>>, <<"i">>, <<>>, notes,
         <<>>, llm, n)

Forms(n) ==
  UNION {{FormAsPrefilled(notes, llm, n), FormTyped(notes, llm, n), FormUnparsed(notes, llm, n),
          FormHalfA(notes, llm, n), FormHalfB(notes, llm, n)} :
         notes \in {<<>>, <<"j">>}, llm \in BOOLEAN}

(***************************************************************************)
(* The script, run by run                                                  *)
(***************************************************************************)
NoOutcomes == [llm |-> NotContacted, photos |-> <<>>, audio |-> "none", insert |-> "none"]

\* the locals of a run that has done nothing yet
FreshRun ==
  /\ form' = <<>>
  /\ outcomes' = NoOutcomes
  /\ extracted' = EmptyDict
  /\ extract_case' = "none"
  /\ row' = <<>>
  /\ saved' = FALSE
  /\ cleared' = FALSE
  /\ app_error' = FALSE
  /\ reset_calls' = 0
  /\ insert_calls' = 0

\* src/app.py 93-105
reset_all_fields ==
  /\ recorded_audio' = None
  /\ transcript_prefill' = <<>>
  /\ audio_hash' = None
  /\ skip_record_once' = TRUE
  /\ crew_prefill' = <<>>
  /\ equip_prefill' = <<>>
  /\ acts_prefill' = <<>>
  /\ qty_prefill' = <<>>
  /\ safety_prefill' = <<>>
  /\ issues_prefill' = <<>>
  /\ nonce' = nonce + 1
  /\ reset_bytes' = recorded_bytes

\* no reset yet, or the recorder has returned something else since
NoReset == <<"NoReset">>

\* an interaction of the operator starts a run of the script from the top;
\* the recorder widget returns a recording or None (src/app.py 258-266)
BeginRun ==
  /\ pc = "idle"
  /\ pc' = "recorder"
  /\ recorded_bytes' \in (IF SAFE_MODE THEN {None} ELSE {None} \cup Recordings)
  /\ reset_bytes' = IF recorded_bytes' = reset_bytes THEN reset_bytes ELSE NoReset
  /\ FreshRun
  /\ UNCHANGED <<session, globals, daily_reports, transcription, norm, excall>>

\* src/app.py 274-293: a new recording is transcribed, extracted into the
\* prefills, and the script reruns from the top with the same widget value
Ingest ==
  /\ nonce < MaxNonce
  /\ \E heard \in (IF ~SAFE_MODE /\ llm_available THEN {None, <<>>, Spoken} ELSE {<<>>}) :
       LET transcript == transcribe_wav_bytes(recorded_bytes, heard)
       IN  \E resp \in (IF LlmContacted(transcript) THEN LlmResponses ELSE {NotContacted}) :
             LET ex == IF Strip(transcript) # <<>>
                       THEN extract_structured_with_gpt(transcript, resp) ELSE EmptyDict
             IN  /\ recorded_audio' = recorded_bytes
                 /\ audio_hash' = md5_bytes(recorded_bytes)
                 /\ transcript_prefill' = transcript
                 /\ crew_prefill' = crew_to_text(Get(ex, "crew_counts", <<>>))
                 /\ equip_prefill' = equip_to_text(Get(ex, "equipment", <<>>))
                 /\ acts_prefill' = acts_to_text(Get(ex, "activities", <<>>))
                 /\ qty_prefill' = qtys_to_text(Get(ex, "quantities", <<>>))
                 /\ safety_prefill' = Get(ex, "safety", <<>>)
                 /\ issues_prefill' = Get(ex, "issues_delays", <<>>)
                 /\ transcription' = IF SAFE_MODE \/ ~llm_available THEN "disabled"
                                     ELSE IF heard = None THEN "failed" ELSE "ok"
  /\ nonce' = nonce + 1
  /\ pc' = "recorder"
  /\ FreshRun
  /\ UNCHANGED <<skip_record_once, recorded_bytes, reset_bytes>>

\* src/app.py 268-293
RecorderHandler ==
  /\ pc = "recorder"
  /\ IF Truthy(recorded_bytes) /\ ~skip_record_once /\ md5_bytes(recorded_bytes) # audio_hash
     THEN Ingest
     ELSE /\ skip_record_once' = (skip_record_once /\ ~Truthy(recorded_bytes))
          /\ pc' = "widgets"
          /\ UNCHANGED <<nonce, recorded_audio, transcript_prefill, audio_hash,
                         crew_prefill, equip_prefill, acts_prefill, qty_prefill,
                         safety_prefill, issues_prefill, transcription,
                         recorded_bytes, form, outcomes, extracted, extract_case,
                         row, saved, cleared, app_error, reset_calls, insert_calls,
                         reset_bytes>>
  /\ UNCHANGED <<globals, daily_reports, norm, excall>>

\* src/app.py 299-304
ClearRecording ==
  /\ pc = "widgets"
  /\ Truthy(recorded_audio)
  /\ nonce < MaxNonce
  /\ reset_all_fields
  /\ reset_calls' = reset_calls + 1
  /\ cleared' = TRUE
  /\ pc' = "idle"
  /\ UNCHANGED <<globals, daily_reports, transcription, recorded_bytes, form, outcomes, extracted,
                 extract_case, row, saved, app_error, insert_calls, norm, excall>>

\* no button was pressed: the script runs to its last line
RunToEnd ==
  /\ pc = "widgets"
  /\ pc' = "idle"
  /\ UNCHANGED <<session, globals, daily_reports, transcription, recorded_bytes, form,
                 outcomes, extracted, extract_case, row, saved, cleared, app_error,
                 reset_calls, insert_calls, reset_bytes, norm, excall>>

\* The inputs of a submission: every form with every answer of the language
\* model when no media is involved, and every combination of upload, extraction
\* and insert outcomes on the form left as prefilled.
SubmitInputs(f, ph, au, resp) ==
  \/ ph = <<>> /\ au # "error"
  \/ /\ f = FormAsPrefilled(<<"j">>, TRUE, Len(ph))
     /\ resp.kind \in {"none", "raise"} \/ resp.data = DataFull

\* src/app.py 458-459: st.error("Supabase not initialized; cannot save row.")
StoreUnavailable ==
  /\ app_error' = TRUE
  /\ saved' = FALSE
  /\ insert_calls' = 0
  /\ reset_calls' = 0
  /\ UNCHANGED <<session, daily_reports, reset_bytes>>

\* a handler that clears the form whether or not the row was stored
InsertRaises_and_resets ==
  /\ app_error' = TRUE
  /\ saved' = FALSE
  /\ insert_calls' = 1
  /\ reset_all_fields
  /\ reset_calls' = 1
  /\ UNCHANGED daily_reports

\* src/app.py 461, 466-467: insert(row).execute() raises, st.error(f"App error: {e}")
InsertRaises ==
  /\ app_error' = TRUE
  /\ saved' = FALSE
  /\ insert_calls' = 1
  /\ reset_calls' = 0
  /\ UNCHANGED <<session, daily_reports, reset_bytes>>

\* a handler that reports the save and leaves the form as it was
Saved_without_reset ==
  /\ app_error' = FALSE
  /\ saved' = TRUE
  /\ insert_calls' = 1
  /\ daily_reports' = daily_reports + 1
  /\ reset_calls' = 0
  /\ UNCHANGED <<session, reset_bytes>>

\* src/app.py 461-464: the row is stored, st.success, reset_all_fields(), st.stop()
Saved ==
  /\ app_error' = FALSE
  /\ saved' = TRUE
  /\ insert_calls' = 1
  /\ daily_reports' = daily_reports + 1
  /\ reset_all_fields
  /\ reset_calls' = 1

\* src/app.py 404-467
SubmitHandler ==
  /\ pc = "widgets"
  /\ \E n \in 0..MaxPhotos :
     \E f \in Forms(n) :
     \E ph \in [1..n -> (IF supabase THEN {"ok", "error", "raise"} ELSE {"none", "raise"})] :
     \E au \in (IF supabase /\ Truthy(recorded_audio) THEN {"ok", "error"} ELSE {"none"}) :
     \E resp \in (IF ExtractionInvoked(f) /\ LlmContacted(combined_text(f))
                  THEN LlmResponses ELSE {NotContacted}) :
     \E ins \in (IF supabase THEN {"ok", "raise"} ELSE {"none"}) :
       LET audio_url  == upload_audio_bytes(recorded_audio, au)
           photo_urls == PhotoLoop(f.photos, ph)
           ex         == SubmitExtracted(f, resp)
       IN  /\ SubmitInputs(f, ph, au, resp)
           /\ ins = "ok" => nonce < MaxNonce
           /\ form' = <<f>>
           /\ outcomes' = [llm |-> resp, photos |-> ph, audio |-> au, insert |-> ins]
           /\ extracted' = ex
           /\ extract_case' = IF ~ExtractionInvoked(f) THEN "skipped"
                              ELSE IF SAFE_MODE \/ ~llm_available THEN "disabled"
                              ELSE resp.kind
           /\ row' = <<BuildRow(f, ex, audio_url, photo_urls)>>
           /\ cleared' = FALSE
           /\ IF ~supabase THEN StoreUnavailable
              ELSE IF ins = "raise" THEN InsertRaises
              ELSE Saved
  /\ pc' = "idle"
  /\ UNCHANGED <<globals, recorded_bytes, transcription, norm, excall>>

(***************************************************************************)
(* Specifications                                                          *)
(***************************************************************************)
\* src/app.py 77-91: the session state of a new session
InitSession ==
  /\ nonce = 0
  /\ recorded_audio = None
  /\ transcript_prefill = <<>>
  /\ audio_hash = None
  /\ skip_record_once = FALSE
  /\ crew_prefill = <<>>
  /\ equip_prefill = <<>>
  /\ acts_prefill = <<>>
  /\ qty_prefill = <<>>
  /\ safety_prefill = <<>>
  /\ issues_prefill = <<>>

InitRun ==
  /\ pc = "idle"
  /\ recorded_bytes = None
  /\ transcription = "none"
  /\ form = <<>>
  /\ outcomes = NoOutcomes
  /\ extracted = EmptyDict
  /\ extract_case = "none"
  /\ row = <<>>
  /\ saved = FALSE
  /\ cleared = FALSE
  /\ app_error = FALSE
  /\ reset_calls = 0
  /\ insert_calls = 0
  /\ reset_bytes = NoReset

\* src/app.py 8-65
InitGlobals ==
  /\ \E b \in BootFlags : SAFE_MODE = b.safe /\ llm_available = b.llm
  /\ supabase \in BOOLEAN

Init ==
  /\ InitSession
  /\ InitGlobals
  /\ daily_reports = 0
  /\ InitRun
  /\ NormIdle
  /\ ExIdle

Next == BeginRun \/ RecorderHandler \/ ClearRecording \/ SubmitHandler \/ RunToEnd

Spec == Init /\ [][Next]_vars

\* the normalizers on every text of at most MaxLen characters
InitParse ==
  /\ InitSession
  /\ SAFE_MODE = FALSE /\ llm_available = TRUE /\ supabase = TRUE
  /\ daily_reports = 0
  /\ InitRun
  /\ norm_mode = "input"
  /\ norm_in \in Texts
  /\ norm_out = <<>>
  /\ norm_text = <<>>
  /\ norm_back = <<>>
  /\ ExIdle

SpecParse == InitParse /\ [][NextParse]_vars

\* the extractor on every raw text and answer, under every boot configuration
InitExtract ==
  /\ InitSession
  /\ \E b \in BootFlags : SAFE_MODE = b.safe /\ llm_available = b.llm
  /\ supabase = TRUE
  /\ daily_reports = 0
  /\ InitRun
  /\ NormIdle
  /\ ex_raw_text \in RawTexts
  /\ ex_response = NotContacted
  /\ ex_result = <<>>

SpecExtract == InitExtract /\ [][NextExtract]_vars

(***************************************************************************)
(* Properties of the merge (Spec)                                          *)
(***************************************************************************)
\* the items of a list
Items(list) == {list[i] : i \in 1..Len(list)}

\* a submission has been handled in the last run
Submitted == form # <<>> /\ row # <<>>

\* C1: manual wins.  For each merged field, when the value typed by hand
\* (parsed, for the list fields) is non-empty, the field of the final record is
\* exactly that value, whatever was extracted: no item of a different extracted
\* value is added to it.
C1_ManualWins ==
  Submitted =>
    LET f  == form[1]
        r  == row[1]
        mc == kvlist_to_json(f.crew_text, TRUE)
        me == kvlist_to_json(f.equip_text, FALSE)
        ma == activities_parse(f.activities_text)
        mq == qty_to_json(f.quantities_text)
    IN  /\ mc # <<>> => r.crew_counts = mc
        /\ me # <<>> => r.equipment = me
        /\ ma # <<>> => r.activities = ma
        /\ mq # <<>> => r.quantities = mq
        /\ f.safety_text # <<>> => r.safety = f.safety_text
        /\ f.issues_text # <<>> => r.issues_delays = f.issues_text
        /\ mc # <<>> =>
             Items(r.crew_counts) \cap Items(Get(extracted, "crew_counts", <<>>)) \subseteq Items(mc)

\* C1 witness: a submission with every field typed by hand while the language
\* model also extracted a value for every field
C1_Witness ==
  /\ Submitted
  /\ extracted = DataFull
  /\ kvlist_to_json(form[1].crew_text, TRUE) # <<>>
  /\ qty_to_json(form[1].quantities_text) # <<>>
  /\ form[1].safety_text # <<>>
  /\ row[1].crew_counts # DataFull.crew_counts

\* C2: fall-through to extraction.  For each merged field, when the manual
\* value is empty (the parsed list is empty, also for text that parses to no
\* entry; the string is empty or whitespace-only for safety and issuesDelays),
\* the field of the final record is the extracted value.
C2_FallThrough ==
  Submitted =>
    LET f == form[1]
        r == row[1]
    IN  /\ kvlist_to_json(f.crew_text, TRUE) = <<>>
             => r.crew_counts = Get(extracted, "crew_counts", <<>>)
        /\ kvlist_to_json(f.equip_text, FALSE) = <<>>
             => r.equipment = Get(extracted, "equipment", <<>>)
        /\ activities_parse(f.activities_text) = <<>>
             => r.activities = Get(extracted, "activities", <<>>)
        /\ qty_to_json(f.quantities_text) = <<>>
             => r.quantities = Get(extracted, "quantities", <<>>)
        /\ Strip(f.safety_text) = <<>> => r.safety = Get(extracted, "safety", <<>>)
        /\ Strip(f.issues_text) = <<>> => r.issues_delays = Get(extracted, "issues_delays", <<>>)

(***************************************************************************)
(* Properties of persistence and reset (Spec)                              *)
(***************************************************************************)
\* the draft: recording, transcript prefill, structured prefills, nonce
draft == <<recorded_audio, transcript_prefill, crew_prefill, equip_prefill, acts_prefill,
           qty_prefill, safety_prefill, issues_prefill, nonce>>

DraftCleared ==
  /\ recorded_audio = None
  /\ transcript_prefill = <<>>
  /\ crew_prefill = <<>> /\ equip_prefill = <<>> /\ acts_prefill = <<>>
  /\ qty_prefill = <<>> /\ safety_prefill = <<>> /\ issues_prefill = <<>>

\* C3: a failed persistence is fatal and non-destructive.  A submit handler
\* whose insert raises, or that finds no store client, reports no success,
\* does not run reset_all_fields, leaves every draft field as it was, adds no
\* row to the store, and calls insert at most once.
C3_FailedInsertKeepsDraft ==
  [][(pc = "widgets" /\ form' # <<>> /\ outcomes'.insert # "ok") =>
       /\ ~saved'
       /\ app_error'
       /\ reset_calls' = 0
       /\ draft' = draft
       /\ daily_reports' = daily_reports
       /\ insert_calls' <= 1]_vars

\* C3 witness: the insert raised on a submission made over a populated draft
C3_Witness ==
  /\ Submitted
  /\ outcomes.insert = "raise"
  /\ insert_calls = 1
  /\ app_error
  /\ Truthy(recorded_audio)
  /\ crew_prefill # <<>>
  /\ transcript_prefill # <<>>

\* C4 as stated: once a run has ended, a save was reported if and only if that
\* run cleared the draft.
C4_SavedIffReset ==
  pc = "idle" => (saved <=> reset_calls > 0)

\* C4: once a run has ended, a reported save implies that this run ran
\* reset_all_fields and the draft is cleared, and a run that ran
\* reset_all_fields either reported the save or is the run of the
\* "Clear recording" button, which reports "Recording cleared." instead.
C4_SavedImpliesReset ==
  pc = "idle" =>
    /\ saved => reset_calls = 1 /\ DraftCleared /\ ~cleared
    /\ reset_calls > 0 => (saved \/ cleared) /\ DraftCleared
    /\ cleared => reset_calls = 1 /\ ~saved

\* C4 witness: a run that saved a report carrying an uploaded recording, after
\* which the recording is gone from the draft
C4_Witness ==
  /\ pc = "idle"
  /\ saved
  /\ row # <<>>
  /\ row[1].audio_url # <<>>
  /\ row[1].voice_transcript # <<>>
  /\ DraftCleared

(***************************************************************************)
(* Properties of the submit handler under failures (Spec)                  *)
(***************************************************************************)
\* the URLs of the photos whose upload succeeded, in the order of the photos
UploadedUrls(photos, outs) ==
  LET ok == SelectSeq([i \in 1..Len(photos) |-> i], LAMBDA i : supabase /\ outs[i] = "ok")
  IN  [j \in 1..Len(ok) |-> <<BUCKET_PHOTOS, photos[ok[j]]>>]

\* C5: only a persistence failure blocks a submission.  Whatever failed among
\* transcription, extraction, audio upload and the photo uploads, a handler
\* that has a store client calls insert, and reports the save when insert
\* succeeds; the failed parts are empty defaults: no transcript prefill, an
\* extraction without fields, an empty audio_url, no URL for a failed photo.
C5_OnlyPersistenceBlocks ==
  /\ transcription = "failed" => transcript_prefill = <<>>
  /\ (pc = "idle" /\ Submitted) =>
       LET f == form[1]
           r == row[1]
       IN  /\ supabase => insert_calls = 1
           /\ (supabase /\ outcomes.insert = "ok") => (saved /\ ~app_error /\ daily_reports > 0)
           /\ r.voice_transcript = f.transcript_text
           /\ extract_case \in {"raise", "notjson", "nondict"} =>
                /\ DOMAIN extracted = {}
                /\ kvlist_to_json(f.crew_text, TRUE) = <<>> => r.crew_counts = <<>>
                /\ f.safety_text = <<>> => r.safety = <<>>
           /\ outcomes.audio = "error" => r.audio_url = <<>>
           /\ Len(r.photos) = Cardinality({i \in 1..Len(f.photos) : outcomes.photos[i] = "ok"})
           /\ \A i \in 1..Len(f.photos) :
                outcomes.photos[i] # "ok" => <<BUCKET_PHOTOS, f.photos[i]>> \notin Items(r.photos)

\* C5 witness: a report saved although transcription, extraction, the audio
\* upload and both photo uploads failed
C5_Witness ==
  /\ pc = "idle"
  /\ Submitted
  /\ saved
  /\ transcription = "failed"
  /\ extract_case = "raise"
  /\ outcomes.audio = "error"
  /\ outcomes.photos = <<"error", "raise">>
  /\ row[1].photos = <<>>

\* C6: extraction skipped, failed, and extraction that found nothing give the
\* same record.  When extraction was not invoked, was disabled, raised, or
\* answered something that is no JSON object, the record is the one an
\* all-empty ExtractedFields gives for the same form and uploads; the fields
\* left empty by hand are empty in it.
C6_NoExtractionSameRecord ==
  (Submitted /\ (\/ extract_case \in {"skipped", "disabled", "raise", "notjson", "nondict"}
                 \/ extract_case = "dict" /\ outcomes.llm.data = DataAllEmpty)) =>
    LET f == form[1]
        r == row[1]
    IN  /\ r = BuildRow(f, DataAllEmpty, r.audio_url, r.photos)
        /\ kvlist_to_json(f.crew_text, TRUE) = <<>> => r.crew_counts = <<>>
        /\ kvlist_to_json(f.equip_text, FALSE) = <<>> => r.equipment = <<>>
        /\ Strip(f.activities_text) = <<>> => r.activities = <<>>
        /\ qty_to_json(f.quantities_text) = <<>> => r.quantities = <<>>
        /\ f.safety_text = <<>> => r.safety = <<>>
        /\ f.issues_text = <<>> => r.issues_delays = <<>>

\* C6 witness: the language model answered with something that is no JSON, on
\* a form with some fields typed and the others empty
C6_Witness ==
  /\ Submitted
  /\ extract_case = "notjson"
  /\ form[1].crew_text # <<>>
  /\ form[1].equip_text = <<>>
  /\ form[1].issues_text = <<>>
  /\ row[1].equipment = <<>>
  /\ row[1].issues_delays = <<>>
  /\ row[1].crew_counts # <<>>

\* C7: photo upload failures are isolated.  photos in the record is exactly
\* the URLs of the photos whose upload succeeded, in the order of the submitted
\* photos, with nothing in the place of a failed one, and the handler goes on
\* to persistence.
C7_PhotoFailuresIsolated ==
  (pc = "idle" /\ Submitted) =>
    /\ row[1].photos = UploadedUrls(form[1].photos, outcomes.photos)
    /\ supabase => insert_calls = 1
    /\ ~supabase => app_error

\* C7 witness: the first of two photos failed to upload, the second is in the
\* saved record
C7_Witness ==
  /\ pc = "idle"
  /\ Submitted
  /\ saved
  /\ Len(form[1].photos) = 2
  /\ outcomes.photos = <<"error", "ok">>
  /\ row[1].photos = <<(<<BUCKET_PHOTOS, 2>>)>>

(***************************************************************************)
(* Properties of the extractor (SpecExtract)                               *)
(***************************************************************************)
\* C8 as stated: every call returns an object with all six keys.
C8_AlwaysComplete ==
  ex_result # <<>> => DOMAIN ex_result[1] = ExtractedKeys

\* C8: the extractor returns an object with all six keys, the keys missing
\* from the answer being empty, only when the language model is enabled, the
\* input is not blank and the answer is a JSON object; with the LLM disabled,
\* on blank input, when the call raises and on a malformed answer it returns
\* the empty object {} that has no key.
C8_CompleteOrEmpty ==
  ex_result # <<>> =>
    LET r == ex_result[1]
    IN  IF ~SAFE_MODE /\ llm_available /\ Strip(ex_raw_text) # <<>> /\ ex_response.kind = "dict"
        THEN /\ DOMAIN r = ExtractedKeys
             /\ \A k \in ExtractedKeys :
                  r[k] = IF k \in DOMAIN ex_response.data THEN ex_response.data[k] ELSE <<>>
        ELSE DOMAIN r = {}

\* C8 witness: an answer with three of the six keys came back complete
C8_Witness ==
  /\ ex_result # <<>>
  /\ ex_response.kind = "dict"
  /\ DOMAIN ex_response.data = {"crew_counts", "activities", "safety"}
  /\ DOMAIN ex_result[1] = ExtractedKeys
  /\ ex_result[1].equipment = <<>>
  /\ ex_result[1].safety = <<"z">>

(***************************************************************************)
(* Properties of the normalizers (SpecParse)                               *)
(***************************************************************************)
\* v == w for the lists a normalizer returns
PyEqList(mode, v, w) ==
  /\ Len(v) = Len(w)
  /\ \A i \in 1..Len(v) :
       CASE mode = "crew"  -> v[i].trade = w[i].trade /\ PyEqVal(v[i].count, w[i].count)
         [] mode = "equip" -> v[i].type = w[i].type /\ PyEqVal(v[i].count, w[i].count)
         [] mode = "qty"   -> /\ v[i].item = w[i].item
                              /\ v[i].unit = w[i].unit
                              /\ PyEqVal(v[i].value, w[i].value)
         [] mode = "acts"  -> v[i] = w[i]

\* C9: round trip.  The value a normalizer returns, serialized by the
\* matching serializer and parsed again, is equal to the value.
C9_RoundTrip ==
  norm_mode \in {"crew", "equip", "qty", "acts"} => PyEqList(norm_mode, norm_back, norm_out)

\* the reparsed value has the same entries, keys, types and numbers as the
\* value, NaN included: only the == of NaN with itself fails in C9
RoundTripSameShape ==
  norm_mode \in {"crew", "equip", "qty", "acts"} => norm_back = norm_out

\* the items of kvlist_to_json and the lines of qty_to_json that contain ":"
ColonPieces(pieces) == SelectSeq(pieces, LAMBDA it : Contains(it, ":"))

KeyText(it) == Strip(SplitFirst(it, ":")[1])

ValueText(it) == Strip(SplitFirst(it, ":")[2])

\* int when the text parses as int, else float when it parses as float, else the text
IntFloatText(v, x) ==
  IF IntParses(v) THEN x.kind = "int" /\ x.num = DigitsVal(v)
  ELSE IF FloatParses(v) THEN x.kind \in {"float", "nan"} /\ x = PyFloat(v)
  ELSE x = StrVal(v)

\* float when the text parses as float, else the text
FloatText(v, x) ==
  IF FloatParses(v) THEN x.kind \in {"float", "nan"} /\ x = PyFloat(v)
  ELSE x = StrVal(v)

CountsCoerced ==
  norm_mode \in {"crew", "equip"} =>
    LET its == ColonPieces(KvItems(norm_in))
    IN  /\ Len(norm_out) = Len(its)
        /\ \A i \in 1..Len(its) :
             /\ IF norm_mode = "crew" THEN norm_out[i].trade = KeyText(its[i])
                ELSE norm_out[i].type = KeyText(its[i])
             /\ IntFloatText(ValueText(its[i]), norm_out[i].count)

\* C10 as stated: count and value are both coerced int first, then float,
\* then the trimmed text, one entry per item or line with a ":".
C10_IntThenFloatBoth ==
  /\ CountsCoerced
  /\ norm_mode = "qty" =>
       LET ls == ColonPieces(QtyLines(norm_in))
       IN  /\ Len(norm_out) = Len(ls)
           /\ \A i \in 1..Len(ls) : IntFloatText(ValueText(ls[i]), norm_out[i].value)

\* C10: every item or line with a ":" yields exactly one entry.  The count of
\* kvlist_to_json is an int when the trimmed text parses as int, else a float
\* when it parses as float, else the trimmed text; the value of qty_to_json
\* is a float when the trimmed text parses as float, also when it parses as
\* int, else the trimmed text.
C10_CountIntValueFloat ==
  /\ CountsCoerced
  /\ norm_mode = "qty" =>
       LET ls == ColonPieces(QtyLines(norm_in))
       IN  /\ Len(norm_out) = Len(ls)
           /\ \A i \in 1..Len(ls) : FloatText(ValueText(ls[i]), norm_out[i].value)

\* C10 witness: two items, one count an int and the other a text
C10_Witness ==
  /\ norm_mode = "crew"
  /\ Len(norm_out) = 2
  /\ norm_out[1].count.kind = "int"
  /\ norm_out[2].count.kind = "str"

(***************************************************************************)
(* C11                                                                     *)
(***************************************************************************)
\* the state written by an ingestion (src/app.py 274-292)
ingested == <<recorded_audio, audio_hash, transcript_prefill, crew_prefill, equip_prefill,
              acts_prefill, qty_prefill, safety_prefill, issues_prefill, nonce,
              transcription>>

\* the recorder handler is about to run, reset_all_fields has run before, and
\* this run and every run since the reset got from the recorder what the run
\* of the reset got
SameBytesSinceReset ==
  /\ pc = "recorder"
  /\ reset_bytes # NoReset
  /\ recorded_bytes = reset_bytes

\* C11: once reset_all_fields has run, in every later run in which the recorder
\* still returns the bytes it returned before the reset, the recorder handler
\* does not ingest them again: recorded_audio stays None, nothing is
\* transcribed or extracted, the prefills are kept and nonce is not incremented.
C11_NoReingestAfterReset ==
  [][SameBytesSinceReset => (recorded_audio' = None /\ UNCHANGED ingested)]_vars

\* What the code does keep: the handler does not ingest while skip_record_once
\* is set, which covers the first run after the reset that has a recording,
\* and that run takes the flag down.
SkipsOnceAfterReset ==
  [][(pc = "recorder" /\ skip_record_once)
       => /\ UNCHANGED ingested
          /\ Truthy(recorded_bytes) => ~skip_record_once']_vars

\* the second run after a reset with the same recording: the flag is down and
\* audio_hash is None, so the handler is about to ingest the recording again
ReingestDue ==
  /\ SameBytesSinceReset
  /\ Truthy(recorded_bytes)
  /\ ~skip_record_once
  /\ audio_hash = None
  /\ nonce < MaxNonce

====
